---- MODULE Spec2Model ----
(***************************************************************************)
(* Model of src/app.py: the POST /upload_and_query handler, the            *)
(* recommendation call generate_recommendations and its shape check        *)
(* validate_recommendation_structure.                                      *)
(*                                                                         *)
(* Python values are tagged records:                                       *)
(*   [t |-> "none"]                      None (JSON null)                 *)
(*   [t |-> "num", n |-> 5]              a number                         *)
(*   [t |-> "nan"]                       float("nan"), which json.loads   *)
(*                                       produces for the literal NaN     *)
(*   [t |-> "str", chars |-> <<..>>]     a string, as its characters      *)
(*   [t |-> "str", loads |-> v]          a string that is the JSON text   *)
(*                                       of the value v                   *)
(*   [t |-> "list", items |-> <<..>>]    a list                           *)
(*   [t |-> "dict", keys, vals]          a dict in insertion order        *)
(* An evaluation that may raise yields [exc |-> "none", val |-> v] or     *)
(* [exc |-> <exception class>].                                            *)
(***************************************************************************)
EXTENDS Integers, Sequences, FiniteSets, TLC

VARIABLES
    pc,               \* position of the request in upload_and_query
    contentType,      \* image.content_type
    imageKind,        \* the uploaded bytes
    image_content,    \* bytes returned by image.read()
    visionResp,       \* outcome of the vision requests.post
    analysis_text,    \* analysis_result["choices"][0]["message"]["content"]
    recResp,          \* outcome of the requests.post in generate_recommendations
    recommendations,  \* value returned by generate_recommendations
    raised,           \* class of the exception that left the last operation
    status,           \* HTTP status of the response, 0 while running
    detail,           \* detail of the HTTPException sent to the client
    body,             \* JSON body of a 200 response
    visionCalls,      \* number of vision requests issued
    recCalls,         \* number of recommendation requests issued
    logged            \* messages passed to logger.error

vars == <<pc, contentType, imageKind, image_content, visionResp, analysis_text,
          recResp, recommendations, raised, status, detail, body,
          visionCalls, recCalls, logged>>

-----------------------------------------------------------------------------
(* Bounds *)

MaxMeds == 2      \* longest medications list the recommendation upstream sends
MaxItems == 1     \* longest treatments / precautions / follow_up list it sends

-----------------------------------------------------------------------------
(* Python values *)

None == [t |-> "none"]
NaN == [t |-> "nan"]
Num(n) == [t |-> "num", n |-> n]
Str(cs) == [t |-> "str", chars |-> cs]
JsonText(v) == [t |-> "str", loads |-> v]
List(items) == [t |-> "list", items |-> items]
Dict(ks, vs) == [t |-> "dict", keys |-> ks, vals |-> vs]

Ok(v) == [exc |-> "none", val |-> v]
Raise(e) == [exc |-> e]

Absent == [t |-> "absent"]

\* a dict literal: the pairs <<key, value>> in order, Absent values left out
MkDict(pairs) ==
    LET present == SelectSeq(pairs, LAMBDA p : p[2] # Absent)
    IN Dict([i \in 1..Len(present) |-> present[i][1]],
            [i \in 1..Len(present) |-> present[i][2]])

\* the keys of the program, as characters
K_name == <<"n","a","m","e">>
K_dosage == <<"d","o","s","a","g","e">>
K_purpose == <<"p","u","r","p","o","s","e">>
K_medications == <<"m","e","d","i","c","a","t","i","o","n","s">>
K_treatments == <<"t","r","e","a","t","m","e","n","t","s">>
K_precautions == <<"p","r","e","c","a","u","t","i","o","n","s">>
K_follow_up == <<"f","o","l","l","o","w","_","u","p">>
K_choices == <<"c","h","o","i","c","e","s">>
K_message == <<"m","e","s","s","a","g","e">>
K_content == <<"c","o","n","t","e","n","t">>

REQUIRED_KEYS == <<K_medications, K_treatments, K_precautions, K_follow_up>>
MED_KEYS == <<K_name, K_dosage, K_purpose>>

-----------------------------------------------------------------------------
(* Python operations on values *)

HasKey(d, k) == \E i \in 1..Len(d.keys) : d.keys[i] = k
Lookup(d, k) == d.vals[CHOOSE i \in 1..Len(d.keys) : d.keys[i] = k]

IsSubstr(p, s) ==
    \E i \in 0..(Len(s) - Len(p)) : SubSeq(s, i + 1, i + Len(p)) = p

\* k in m, for a string k
PyIn(k, m) ==
    CASE m.t = "dict" -> Ok(HasKey(m, k))
      [] m.t = "list" -> Ok(\E i \in 1..Len(m.items) : m.items[i] = Str(k))
      [] m.t = "str"  -> Ok(IsSubstr(k, m.chars))
      [] OTHER        -> Raise("TypeError")

\* for m in v
PyIter(v) ==
    CASE v.t = "list" -> Ok(v.items)
      [] v.t = "dict" -> Ok([i \in 1..Len(v.keys) |-> Str(v.keys[i])])
      [] v.t = "str"  -> Ok([i \in 1..Len(v.chars) |-> Str(<<v.chars[i]>>)])
      [] OTHER        -> Raise("TypeError")

\* data.get(key) with the default forgotten: an absent key yields None
PyGetNoDefault(data, k, default) ==
    IF data.t # "dict" THEN Raise("AttributeError")
    ELSE IF HasKey(data, k) THEN Ok(Lookup(data, k)) ELSE Ok(None)

\* data.get(key, default)
PyGet(data, k, default) ==
    IF data.t # "dict" THEN Raise("AttributeError")
    ELSE IF HasKey(data, k) THEN Ok(Lookup(data, k)) ELSE Ok(default)

\* v[k] for a string k
PyItemStr(v, k) ==
    CASE v.t = "dict" -> IF HasKey(v, k) THEN Ok(Lookup(v, k)) ELSE Raise("KeyError")
      [] OTHER        -> Raise("TypeError")

\* v[0]
PyItem0(v) ==
    CASE v.t = "list" -> IF Len(v.items) > 0 THEN Ok(v.items[1]) ELSE Raise("IndexError")
      [] v.t = "dict" -> Raise("KeyError")
      [] v.t = "str"  -> IF Len(v.chars) > 0 THEN Ok(Str(<<v.chars[1]>>))
                         ELSE Raise("IndexError")
      [] OTHER        -> Raise("TypeError")

\* json.loads(content)
json_loads(content) ==
    IF content.t # "str" THEN Raise("TypeError")
    ELSE IF "loads" \in DOMAIN content THEN Ok(content.loads)
    ELSE Raise("JSONDecodeError")

\* all(k in m for k in ["name", "dosage", "purpose"])
AllMedKeysIn(m) ==
    LET r == [i \in 1..Len(MED_KEYS) |-> PyIn(MED_KEYS[i], m)]
    IN IF r[1].exc # "none" THEN r[1]
       ELSE Ok(\A i \in 1..Len(MED_KEYS) : r[i].val)

-----------------------------------------------------------------------------
(* validate_recommendation_structure *)

\* {key: [] for key in REQUIRED_KEYS}
FallbackBundle == Dict(REQUIRED_KEYS, [i \in 1..Len(REQUIRED_KEYS) |-> List(<<>>)])

\* [m for m in data.get("medications", []) if all(k in m for k in [...])]
FilterMedications(data) ==
    LET got == PyGet(data, K_medications, List(<<>>))
    IN IF got.exc # "none" THEN got
       ELSE LET it == PyIter(got.val)
            IN IF it.exc # "none" THEN it
               ELSE IF \E i \in 1..Len(it.val) : AllMedKeysIn(it.val[i]).exc # "none"
                    THEN Raise("TypeError")
                    ELSE Ok(List(SelectSeq(it.val, LAMBDA m : AllMedKeysIn(m).val)))

validate_recommendation_structure(data) ==
    LET meds == FilterMedications(data)
    IN IF meds.exc # "none" THEN meds
       ELSE Ok(MkDict(<< <<K_medications, meds.val>>,
                         <<K_treatments, PyGet(data, K_treatments, List(<<>>)).val>>,
                         <<K_precautions, PyGet(data, K_precautions, List(<<>>)).val>>,
                         <<K_follow_up, PyGet(data, K_follow_up, List(<<>>)).val>> >>))

-----------------------------------------------------------------------------
(* The upstream: one requests.post ends in a transport exception or in a  *)
(* response with a status code and a body that is JSON or is not.          *)

Transport(e) == [t |-> "exc", exc |-> e]
Response(code, b) == [t |-> "resp", status_code |-> code, body |-> b]
NotJsonBody == [json |-> FALSE]
JsonBody(v) == [json |-> TRUE, value |-> v]

\* requests.post(...)
RequestsPost(outcome) ==
    IF outcome.t = "exc" THEN Raise(outcome.exc) ELSE Ok(outcome)

\* response.json()
ResponseJson(response) ==
    IF response.body.json THEN Ok(response.body.value) ELSE Raise("JSONDecodeError")

\* result["choices"][0]["message"]["content"]
ChatContent(result) ==
    LET a == PyItemStr(result, K_choices)
    IN IF a.exc # "none" THEN a
       ELSE LET b == PyItem0(a.val)
            IN IF b.exc # "none" THEN b
               ELSE LET c == PyItemStr(b.val, K_message)
                    IN IF c.exc # "none" THEN c
                       ELSE PyItemStr(c.val, K_content)

-----------------------------------------------------------------------------
(* generate_recommendations *)

\* except (json.JSONDecodeError, KeyError)
InnerCatches(e) == e \in {"JSONDecodeError", "KeyError"}

\* except requests.RequestException instead of except Exception
OuterCatchesRequestOnly(e) == e \in {"ConnectionError", "Timeout"}

\* except Exception
OuterCatches(e) == TRUE

\* logger.error(f"{message}: {argument}")
LogEntry(message, argument) == <<message, argument>>

Returned(v, log) == [exc |-> "none", val |-> v, log |-> log]
Escaped(e) == [exc |-> e, log |-> <<>>]

\* the inner try: json.loads(content), then the shape check
ParseAndValidate(content) ==
    LET loaded == json_loads(content)
        checked == IF loaded.exc # "none" THEN loaded
                   ELSE validate_recommendation_structure(loaded.val)
    IN IF checked.exc = "none" THEN Returned(checked.val, <<>>)
       ELSE IF InnerCatches(checked.exc)
            THEN Returned(FallbackBundle, <<LogEntry("Invalid response format", checked.exc)>>)
            ELSE Escaped(checked.exc)

\* the body of the outer try
RecommendationAttempt(outcome) ==
    LET post == RequestsPost(outcome)
    IN IF post.exc # "none" THEN Escaped(post.exc)
       ELSE IF post.val.status_code # 200
            THEN Returned(FallbackBundle, <<LogEntry("Groq API error", "response.text")>>)
            ELSE LET result == ResponseJson(post.val)
                 IN IF result.exc # "none" THEN Escaped(result.exc)
                    ELSE LET content == ChatContent(result.val)
                         IN IF content.exc # "none" THEN Escaped(content.exc)
                            ELSE ParseAndValidate(content.val)

generate_recommendations(outcome) ==
    LET r == RecommendationAttempt(outcome)
    IN IF r.exc # "none" /\ OuterCatches(r.exc)
       THEN Returned(FallbackBundle, <<LogEntry("Recommendation generation failed", r.exc)>>)
       ELSE r

-----------------------------------------------------------------------------
(* What the upstreams can answer *)

SeqsUpTo(S, n) == UNION {[1..k -> S] : k \in 0..n}

T_rest == <<"r","e","s","t">>
T_all == K_name \o K_dosage \o K_purpose

\* {"choices": [{"message": {"content": content}}]}
ChatBody(content) ==
    Dict(<<K_choices>>,
         <<List(<<Dict(<<K_message>>, <<Dict(<<K_content>>, <<content>>)>>)>>)>>)

\* bodies that are JSON but lack choices[0].message.content
MalformedBodies ==
    { Dict(<<>>, <<>>),
      List(<<>>),
      Dict(<<K_choices>>, <<List(<<>>)>>),
      Dict(<<K_choices>>, <<None>>),
      Dict(<<K_choices>>, <<List(<<Dict(<<>>, <<>>)>>)>>),
      Dict(<<K_choices>>, <<List(<<Dict(<<K_message>>, <<Dict(<<>>, <<>>)>>)>>)>>) }

TransportErrors == {Transport("ConnectionError"), Transport("Timeout")}
ErrorStatuses == {201, 429, 500}
ErrorResponses ==
    {Response(c, b) : c \in ErrorStatuses,
                      b \in {NotJsonBody, JsonBody(Dict(<<>>, <<>>)),
                             JsonBody(ChatBody(Str(T_rest)))}}
MalformedResponses ==
    {Response(200, NotJsonBody)} \cup {Response(200, JsonBody(b)) : b \in MalformedBodies}

\* medication records
WellFormedA == Dict(MED_KEYS, <<Str(<<"A">>), Str(<<"1">>), Str(<<"x">>)>>)
WellFormedB == Dict(MED_KEYS, <<Str(<<"B">>), Str(<<"2">>), Str(<<"y">>)>>)
NoPurpose == Dict(<<K_name, K_dosage>>, <<Str(<<"C">>), Str(<<"3">>)>>)

MedRecords ==
    {WellFormedA, WellFormedB, NoPurpose, None, Num(5), Str(T_all)}
MedNonLists ==
    {None, Num(1), Str(<<"A">>), Dict(<<T_all>>, <<Num(1)>>)}
MedValues(n) ==
    {Absent} \cup {List(s) : s \in SeqsUpTo(MedRecords, n)} \cup MedNonLists

FieldItems == {Str(T_rest)}
FieldNonLists == {None, Num(1), Str(T_rest), Dict(<<>>, <<>>)}
FieldValues(n) ==
    {Absent} \cup {List(s) : s \in SeqsUpTo(FieldItems, n)} \cup FieldNonLists

\* JSON objects with any subset of the four keys
RecObjects(meds, fields) ==
    {MkDict(<< <<K_medications, m>>, <<K_treatments, a>>,
               <<K_precautions, b>>, <<K_follow_up, c>> >>) :
        m \in meds, a \in fields, b \in fields, c \in fields}

\* JSON values that are not objects
NonObjects == {None, Num(1), Str(T_rest), List(<<>>), List(<<WellFormedA>>)}

\* the content of the recommendation completion
RecContents(meds, fields) ==
    {JsonText(v) : v \in RecObjects(meds, fields) \cup NonObjects}
        \cup {Str(T_rest), None}

RecOutcomes(meds, fields) ==
    TransportErrors \cup ErrorResponses \cup MalformedResponses
        \cup {Response(200, JsonBody(ChatBody(c))) : c \in RecContents(meds, fields)}

-----------------------------------------------------------------------------
(* generate_recommendations on its own: one call, every upstream outcome *)

InitGen ==
    /\ pc = "gen_call"
    /\ contentType = None
    /\ imageKind = "none"
    /\ image_content = "unread"
    /\ visionResp = None
    /\ analysis_text = None
    /\ recResp = None
    /\ recommendations = None
    /\ raised = "none"
    /\ status = 0
    /\ detail = ""
    /\ body = None
    /\ visionCalls = 0
    /\ recCalls = 0
    /\ logged = <<>>

GenCall ==
    /\ pc = "gen_call"
    /\ \E outcome \in RecOutcomes(MedValues(MaxMeds), FieldValues(MaxItems)) :
         LET r == generate_recommendations(outcome)
         IN /\ recResp' = outcome
            /\ recCalls' = recCalls + 1
            /\ raised' = r.exc
            /\ recommendations' = IF r.exc = "none" THEN r.val ELSE None
            /\ logged' = logged \o r.log
    /\ pc' = "gen_done"
    /\ UNCHANGED <<contentType, imageKind, image_content, visionResp,
                   analysis_text, status, detail, body, visionCalls>>

NextGen == GenCall

SpecGen == InitGen /\ [][NextGen]_vars

-----------------------------------------------------------------------------
(* upload_and_query *)

T_image_slash == <<"i","m","a","g","e","/">>
T_png == <<"p","n","g">>
T_jpeg == <<"j","p","e","g">>
T_text_plain == <<"t","e","x","t","/","p","l","a","i","n">>
T_IMAGE_PNG == <<"I","M","A","G","E","/","P","N","G">>
T_fracture == <<"f","r","a","c","t","u","r","e">>
K_analysis == <<"a","n","a","l","y","s","i","s">>
K_recommendations == <<"r","e","c","o","m","m","e","n","d","a","t","i","o","n","s">>

\* content types that start with "image/"
ImageTypes == {Str(T_image_slash \o T_png), Str(T_image_slash \o T_jpeg)}
\* content types that do not; None is a part sent without a Content-Type
OtherTypes == {Str(T_text_plain), Str(T_IMAGE_PNG), Str(<<"i","m","a","g","e">>), Str(<<>>)}
ContentTypes == ImageTypes \cup OtherTypes \cup {None}

\* the uploaded bytes
ImageKinds == {"png", "jpeg", "truncated_png", "truncated_jpeg", "text", "empty"}

\* the prefix compared without its last character: startswith("image")
PyStartsWithShort(s, prefix) ==
    IF s.t # "str" THEN Raise("AttributeError")
    ELSE Ok(Len(s.chars) >= Len(prefix) - 1
            /\ SubSeq(s.chars, 1, Len(prefix) - 1) = SubSeq(prefix, 1, Len(prefix) - 1))

\* s.startswith(prefix)
PyStartsWith(s, prefix) ==
    IF s.t # "str" THEN Raise("AttributeError")
    ELSE Ok(Len(s.chars) >= Len(prefix) /\ SubSeq(s.chars, 1, Len(prefix)) = prefix)

\* Image.open(io.BytesIO(image_content)).verify(): open reads the header and
\* raises on bytes that are no image; verify checks the chunks of a PNG and
\* checks nothing of a JPEG, so a JPEG cut after its header passes.
ImageOpenVerify(bytes) ==
    IF bytes \in {"png", "jpeg", "truncated_jpeg"} THEN Ok(None)
    ELSE IF bytes = "truncated_png" THEN Raise("SyntaxError")
    ELSE Raise("UnidentifiedImageError")

HTTPException(code, d) == [exc |-> "HTTPException", status_code |-> code, detail |-> d]

\* the 500 built with detail=str(e) instead of the fixed message
ExceptClausesLeaky(e) ==
    IF e.exc = "HTTPException"
    THEN [status_code |-> e.status_code, detail |-> e.detail, log |-> <<>>]
    ELSE [status_code |-> 500, detail |-> e.exc,
          log |-> <<LogEntry("Unexpected error", e.exc)>>]

\* except HTTPException as he: raise he / except Exception as e: raise HTTPException(500, ...)
ExceptClauses(e) ==
    IF e.exc = "HTTPException"
    THEN [status_code |-> e.status_code, detail |-> e.detail, log |-> <<>>]
    ELSE [status_code |-> 500, detail |-> "Internal server error",
          log |-> <<LogEntry("Unexpected error", e.exc)>>]

\* only a 5xx status taken as a failure of the vision upstream
VisionFailedOnly5xx(response) == response.status_code >= 500

\* analysis_response.status_code != 200
VisionFailed(response) == response.status_code # 200

\* JSONResponse renders its content with json.dumps(..., allow_nan=False),
\* which raises ValueError on a NaN anywhere in the content
RECURSIVE HasNaN(_)
HasNaN(v) ==
    CASE v.t = "nan"  -> TRUE
      [] v.t = "list" -> \E i \in 1..Len(v.items) : HasNaN(v.items[i])
      [] v.t = "dict" -> \E i \in 1..Len(v.vals) : HasNaN(v.vals[i])
      [] OTHER        -> FALSE

JSONResponse(content) ==
    IF HasNaN(content) THEN Raise("ValueError") ELSE Ok(content)

\* the request ends with the exception e; pre is what the step logged before
Finish(e, pre) ==
    LET h == ExceptClauses(e)
    IN /\ raised' = e.exc
       /\ status' = h.status_code
       /\ detail' = h.detail
       /\ logged' = logged \o pre \o h.log
       /\ pc' = "done"

VisionOutcomes ==
    TransportErrors \cup ErrorResponses \cup MalformedResponses
        \cup {Response(200, JsonBody(ChatBody(c))) : c \in {Str(T_fracture), None}}

\* the recommendation answers tried in a whole request
HandlerFields == {Absent, List(<<Str(T_rest)>>), Str(T_rest), List(<<NaN>>)}
HandlerRecOutcomes == RecOutcomes(MedValues(1), HandlerFields)

Init ==
    /\ pc = "start"
    /\ contentType \in ContentTypes
    /\ imageKind \in ImageKinds
    /\ image_content = "unread"
    /\ visionResp = None
    /\ analysis_text = None
    /\ recResp = None
    /\ recommendations = None
    /\ raised = "none"
    /\ status = 0
    /\ detail = ""
    /\ body = None
    /\ visionCalls = 0
    /\ recCalls = 0
    /\ logged = <<>>

\* if not image.content_type.startswith("image/"): raise HTTPException(400, ...)
CheckContentType ==
    /\ pc = "start"
    /\ LET r == PyStartsWith(contentType, T_image_slash)
       IN IF r.exc # "none" THEN Finish(r, <<>>)
          ELSE IF ~r.val
               THEN Finish(HTTPException(400, "Invalid file type. Please upload an image"), <<>>)
               ELSE /\ pc' = "read"
                    /\ UNCHANGED <<raised, status, detail, logged>>
    /\ UNCHANGED <<contentType, imageKind, image_content, visionResp, analysis_text,
                   recResp, recommendations, body, visionCalls, recCalls>>

\* image_content = await image.read()
ReadImage ==
    /\ pc = "read"
    /\ image_content' = imageKind
    /\ pc' = "verify"
    /\ UNCHANGED <<contentType, imageKind, visionResp, analysis_text, recResp,
                   recommendations, raised, status, detail, body, visionCalls,
                   recCalls, logged>>

\* try: Image.open(...).verify() / except Exception: raise HTTPException(400, ...)
VerifyImage ==
    /\ pc = "verify"
    /\ LET r == ImageOpenVerify(image_content)
       IN IF r.exc # "none"
          THEN Finish(HTTPException(400, "Invalid or corrupted image file"),
                      <<LogEntry("Invalid image", r.exc)>>)
          ELSE /\ pc' = "vision_call"
               /\ UNCHANGED <<raised, status, detail, logged>>
    /\ UNCHANGED <<contentType, imageKind, image_content, visionResp, analysis_text,
                   recResp, recommendations, body, visionCalls, recCalls>>

\* analysis_response = requests.post(GROQ_API_URL, ...)
VisionCall ==
    /\ pc = "vision_call"
    /\ \E outcome \in VisionOutcomes :
         LET r == RequestsPost(outcome)
         IN /\ visionResp' = outcome
            /\ visionCalls' = visionCalls + 1
            /\ IF r.exc # "none" THEN Finish(r, <<>>)
               ELSE /\ pc' = "vision_check"
                    /\ UNCHANGED <<raised, status, detail, logged>>
    /\ UNCHANGED <<contentType, imageKind, image_content, analysis_text, recResp,
                   recommendations, body, recCalls>>

\* the status check, analysis_response.json() and the extraction of the text
VisionCheck ==
    /\ pc = "vision_check"
    /\ IF VisionFailed(visionResp)
       THEN /\ Finish(HTTPException(502, "Image analysis service unavailable"), <<>>)
            /\ UNCHANGED analysis_text
       ELSE LET result == ResponseJson(visionResp)
                content == IF result.exc # "none" THEN result ELSE ChatContent(result.val)
            IN IF content.exc # "none"
               THEN /\ Finish(content, <<>>)
                    /\ UNCHANGED analysis_text
               ELSE /\ analysis_text' = content.val
                    /\ pc' = "recommend"
                    /\ UNCHANGED <<raised, status, detail, logged>>
    /\ UNCHANGED <<contentType, imageKind, image_content, visionResp, recResp,
                   recommendations, body, visionCalls, recCalls>>

\* recommendations = generate_recommendations(analysis_text)
Recommend ==
    /\ pc = "recommend"
    /\ \E outcome \in HandlerRecOutcomes :
         LET r == generate_recommendations(outcome)
         IN /\ recResp' = outcome
            /\ recCalls' = recCalls + 1
            /\ IF r.exc # "none"
               THEN /\ Finish(r, r.log)
                    /\ UNCHANGED recommendations
               ELSE /\ recommendations' = r.val
                    /\ logged' = logged \o r.log
                    /\ pc' = "respond"
                    /\ UNCHANGED <<raised, status, detail>>
    /\ UNCHANGED <<contentType, imageKind, image_content, visionResp, analysis_text,
                   body, visionCalls>>

\* return JSONResponse({"analysis": analysis_text, "recommendations": recommendations})
Respond ==
    /\ pc = "respond"
    /\ LET r == JSONResponse(Dict(<<K_analysis, K_recommendations>>,
                                  <<analysis_text, recommendations>>))
       IN IF r.exc # "none"
          THEN /\ Finish(r, <<>>)
               /\ UNCHANGED body
          ELSE /\ body' = r.val
               /\ status' = 200
               /\ pc' = "done"
               /\ UNCHANGED <<raised, detail, logged>>
    /\ UNCHANGED <<contentType, imageKind, image_content, visionResp, analysis_text,
                   recResp, recommendations, visionCalls, recCalls>>

Next ==
    \/ CheckContentType
    \/ ReadImage
    \/ VerifyImage
    \/ VisionCall
    \/ VisionCheck
    \/ Recommend
    \/ Respond

Spec == Init /\ [][Next]_vars

-----------------------------------------------------------------------------
(* Properties *)

\* the recommendation upstream answered 200 with choices[0].message.content
RecIsChat ==
    /\ recResp # None
    /\ recResp \notin TransportErrors \cup ErrorResponses \cup MalformedResponses
\* that content
RecContentVal == recResp.body.value.vals[1].items[1].vals[1].vals[1]
\* the content is the JSON text of an object
RecIsObject ==
    /\ RecIsChat
    /\ RecContentVal.t = "str"
    /\ "loads" \in DOMAIN RecContentVal
    /\ RecContentVal.loads.t = "dict"
RecObject == RecContentVal.loads

\* the vision upstream answered 200 with choices[0].message.content
VisionSucceeded ==
    visionResp \in {Response(200, JsonBody(ChatBody(c))) : c \in {Str(T_fracture), None}}
VisionText == visionResp.body.value.vals[1].items[1].vals[1].vals[1]

\* bytes that decode as an image
Decodable == {"png", "jpeg"}

GenericDetails ==
    {"Invalid file type. Please upload an image",
     "Invalid or corrupted image file",
     "Image analysis service unavailable",
     "Internal server error"}

\* C1: a request whose declared content type does not start with "image/" or
\* whose bytes do not decode as an image ends with 400 and issues no upstream
\* call at any point.
C1_BadUploadIs400 ==
    (contentType \in OtherTypes \/ imageKind \notin Decodable)
        => /\ visionCalls = 0
           /\ recCalls = 0
           /\ (pc = "done" => status = 400)

\* C2: when the vision upstream answers with a non-200 status the request ends
\* with 502, generate_recommendations is never called and the response carries
\* no recommendation data.
C2_VisionNon200Is502 ==
    visionResp \in ErrorResponses
        => /\ recCalls = 0
           /\ recommendations = None
           /\ body = None
           /\ (pc = "done" => status = 502)

C2_Witness ==
    /\ pc = "done"
    /\ visionResp = Response(429, JsonBody(ChatBody(Str(T_rest))))
    /\ status = 502

\* C3: every failure of the vision step (non-200 status, transport error or
\* timeout, 200 with a malformed body) ends the request with 502.
C3_VisionFailureIs502 ==
    (pc = "done" /\ visionCalls = 1 /\ ~VisionSucceeded) => status = 502

\* C4: generate_recommendations never raises, and for every failure outcome
\* of its upstream call (transport error, non-200, body or content that is not
\* JSON or not of the expected shape, content that is not an object) it returns
\* the bundle of four empty lists.
C4_GenNeverRaises ==
    pc = "gen_done"
        => /\ raised = "none"
           /\ recommendations.t = "dict"
           /\ (~RecIsObject => recommendations = FallbackBundle)

C4_Witness ==
    /\ pc = "gen_done"
    /\ RecIsChat
    /\ RecContentVal = JsonText(List(<<>>))
    /\ raised = "none"
    /\ recommendations = FallbackBundle

\* C5: for a content that is a JSON object omitting some of the four keys, the
\* returned bundle has exactly the four keys and every omitted key is an empty
\* list.
C5_OmittedKeysDefault ==
    (pc = "gen_done" /\ RecIsObject)
        => /\ recommendations.t = "dict"
           /\ recommendations.keys = REQUIRED_KEYS
           /\ \A i \in 1..Len(REQUIRED_KEYS) :
                ~(\E j \in 1..Len(RecObject.keys) : RecObject.keys[j] = REQUIRED_KEYS[i])
                    => recommendations.vals[i] = List(<<>>)

C5_Witness ==
    /\ pc = "gen_done"
    /\ RecIsObject
    /\ RecObject = Dict(<<K_treatments>>, <<List(<<Str(T_rest)>>)>>)
    /\ recommendations.vals =
         <<List(<<>>), List(<<Str(T_rest)>>), List(<<>>), List(<<>>)>>

\* C6: in every bundle generate_recommendations returns, each of the four
\* fields is a list and no key is omitted.
C6_EveryFieldIsList ==
    pc = "gen_done"
        => /\ raised = "none"
           /\ recommendations.t = "dict"
           /\ recommendations.keys = REQUIRED_KEYS
           /\ \A i \in 1..Len(REQUIRED_KEYS) : recommendations.vals[i].t = "list"

\* a medication record carrying name, dosage and purpose
IsCompleteRecord(m) ==
    /\ m.t = "dict"
    /\ \A i \in 1..Len(MED_KEYS) : \E j \in 1..Len(m.keys) : m.keys[j] = MED_KEYS[i]

\* C7: of a list of medication records, exactly the records carrying name,
\* dosage and purpose are returned, in their order, and a malformed record
\* does not cost the response its other records or its other three fields.
C7_MalformedRecordDropped ==
    (pc = "gen_done" /\ RecIsObject /\ HasKey(RecObject, K_medications)
        /\ Lookup(RecObject, K_medications).t = "list")
        => /\ recommendations.t = "dict"
           /\ Lookup(recommendations, K_medications)
                = List(SelectSeq(Lookup(RecObject, K_medications).items, IsCompleteRecord))
           /\ \A k \in {K_treatments, K_precautions, K_follow_up} :
                HasKey(RecObject, k) => Lookup(recommendations, k) = Lookup(RecObject, k)

\* C8: once the vision step succeeded, every outcome of the recommendation
\* call ends the request with 200 and analysis equal to the vision text, with
\* treatments, precautions and follow_up empty when that call failed.
C8_RecommendationNeverFailsRequest ==
    (pc = "done" /\ VisionSucceeded)
        => /\ status = 200
           /\ body.t = "dict"
           /\ Lookup(body, K_analysis) = VisionText
           /\ (~RecIsObject =>
                 \A k \in {K_treatments, K_precautions, K_follow_up} :
                     Lookup(Lookup(body, K_recommendations), k) = List(<<>>))

\* C9: a request ends in one of 200, 400, 502, 500; an exception that is not a
\* deliberate 400/502 becomes 500; the detail sent is one of the fixed messages.
C9_StatusAndDetail ==
    /\ (pc = "done" <=> status # 0)
    /\ status \in {0, 200, 400, 502, 500}
    /\ (status \notin {0, 200} => detail \in GenericDetails)
    /\ (status \in {0, 200} => detail = "" /\ raised = "none")
    /\ (raised \notin {"none", "HTTPException"}
          => status = 500 /\ detail = "Internal server error")
    /\ (raised = "HTTPException" => status \in {400, 502})

C9_Witness ==
    /\ pc = "done"
    /\ raised = "KeyError"
    /\ status = 500
    /\ detail = "Internal server error"

\* C10: the vision call is issued at most once and only after both upload
\* validations passed, the recommendation call at most once and only after the
\* vision call returned 200 with a well-formed body, and no upstream call is
\* issued once the request has failed.
C10_LinearNoRetry ==
    /\ [](/\ visionCalls <= 1
          /\ recCalls <= 1
          /\ (visionCalls = 1 =>
                /\ contentType \in ImageTypes
                /\ image_content \in ImageKinds
                /\ ImageOpenVerify(image_content).exc = "none")
          /\ (recCalls = 1 => visionCalls = 1 /\ VisionSucceeded))
    /\ [][status \notin {0, 200} =>
            (visionCalls' = visionCalls /\ recCalls' = recCalls)]_vars

C10_Witness ==
    /\ pc = "done"
    /\ status = 200
    /\ visionCalls = 1
    /\ recCalls = 1

====
